---- MODULE Spec2Model ----
(***************************************************************************)
(* Valence-Pi radial engine: the matrix builders (matrices.py), the        *)
(* evolution loop (dynamics.py), the simulation driver (simulation.py)     *)
(* and the delta / top-impact extraction of the dashboard (app.py).        *)
(*                                                                         *)
(* Numbers.  The engine computes in floating point; the model computes in  *)
(* exact fixed point.  ONE stands for 1.0.  Matrix coefficients and the    *)
(* damping are two-decimal constants and are held in hundredths (0.85 is   *)
(* 85); state values are held in units of 1/ONE.  A product coefficient *  *)
(* value is exact as long as the value is a multiple of Den, which holds   *)
(* for tenth-valued inputs during the first three steps (FixedPointExact). *)
(*                                                                         *)
(* Python's None is the empty tuple, a present value x is <<x>>.  Vectors  *)
(* and matrices are functions over 0..n-1, as numpy indexes them.          *)
(***************************************************************************)
EXTENDS Integers, FiniteSets, Sequences, TLC

VARIABLES
    pc,              \* "idle" | "evolve" | "loop" | "returned" | "raised"
    entry,           \* which function the caller invoked: "run_simulation" | "evolve" | "none"
    arg_core,        \* evolve's parameter core, as passed
    arg_surface,     \* evolve's parameter surface, as passed
    steps,           \* evolve's parameter steps
    target_core,     \* None or <<vector>>
    target_surface,  \* None or <<vector>>
    C, L, R, F,      \* None or <<matrix>>
    damping,         \* evolve's parameter damping: None or <<hundredths>>
    damping_given,   \* TRUE iff the caller supplied a damping value
    core, surface,   \* evolve's locals
    t,               \* loop variable of evolve
    history_core,    \* None before allocation, <<rows>> after
    history_surface,
    core_delta,      \* the delta vectors of the last iteration
    surface_delta,
    error,           \* "none" or the name of the exception raised
    before_vals,     \* app.py: result extraction
    after_vals,
    deltas,
    max_delta_idx,
    dpc              \* "start" | "deltas" | "done" | "off"

evolveVars == <<pc, entry, arg_core, arg_surface, steps, target_core, target_surface,
                C, L, R, F, damping, damping_given, core, surface, t,
                history_core, history_surface, core_delta, surface_delta, error>>
deltaVars == <<before_vals, after_vals, deltas, max_delta_idx, dpc>>
vars == <<evolveVars, deltaVars>>

----------------------------------------------------------------------------
(* Bounds of the model *)

MaxSteps == 2
MaxNeg == 2
MaxLen == 3

(* Program constants *)

N_CORE == 7
N_SURFACE == 15
PROPAGATION_DAMPING == 62

(* Fixed point *)

Den == 10 * 10
ONE == 10 * Den * Den * Den
Tenth == ONE \div 10

None == <<>>
Some(x) == <<x>>
Val(o) == o[1]

----------------------------------------------------------------------------
(* numpy helpers *)

Size(v) == Cardinality(DOMAIN v)
Vec(n, x) == [i \in 0..(n - 1) |-> x]
Tenths(v) == [i \in DOMAIN v |-> v[i] * Tenth]
FromSeq(s) == [i \in 0..(Len(s) - 1) |-> s[i + 1]]

\* a hidden additive term: the delta does not start from zero
tenths_like(v) == [i \in DOMAIN v |-> Tenth]

zeros_like(v) == [i \in DOMAIN v |-> 0]

Rows(M) == Size(M)
Cols(M) == Size(M[0])

MulFix(a, x) == a * (x \div Den)

RECURSIVE SumUpTo(_, _)
SumUpTo(f, k) == IF k < 0 THEN 0 ELSE f[k] + SumUpTo(f, k - 1)

Dot(row, v) == SumUpTo([j \in DOMAIN v |-> MulFix(row[j], v[j])], Size(v) - 1)

MatVec(M, v) == [i \in 0..(Rows(M) - 1) |-> Dot(M[i], v)]

\* numpy broadcasting of two 1-D shapes
CanBroadcast(n, m) == n = m \/ n = 1 \/ m = 1
At(v, i) == IF Size(v) = 1 THEN v[0] ELSE v[i]
BroadcastSize(n, m) == IF n = 1 THEN m ELSE n
Sub(a, b) == [i \in 0..(BroadcastSize(Size(a), Size(b)) - 1) |-> At(a, i) - At(b, i)]
Scale(d, x) == [i \in DOMAIN x |-> MulFix(d, x[i])]

\* acc += x : x must broadcast to the shape of acc
FitsInto(x, acc) == Size(x) = Size(acc) \/ Size(x) = 1
IAdd(acc, x) == [i \in DOMAIN acc |-> acc[i] + At(x, i)]

\* the upper limit is not enforced
clip_lower_only(x, lo, hi) == IF x < lo THEN lo ELSE x

clip(x, lo, hi) == IF x < lo THEN lo ELSE IF x > hi THEN hi ELSE x
clipVec(v) == [i \in DOMAIN v |-> clip(v[i], -ONE, ONE)]

Ok(v) == [err |-> "none", val |-> v]
Err(e) == [err |-> e, val |-> None]

----------------------------------------------------------------------------
(* matrices.py *)

Eye(n) == [i \in 0..(n - 1) |-> [j \in 0..(n - 1) |-> IF i = j THEN 1 ELSE 0]]
Ones(r, c) == [i \in 0..(r - 1) |-> [j \in 0..(c - 1) |-> 1]]
Times(M, k) == [i \in DOMAIN M |-> [j \in DOMAIN M[i] |-> M[i][j] * k]]
SetEntry(M, i, j, x) == [M EXCEPT ![i][j] = x]

\* the cross coupling has the wrong sign
build_core_matrix_negative_coupling ==
    LET C0 == Times(Eye(N_CORE), 85)
    IN  [i \in 0..(N_CORE - 1) |->
            [j \in 0..(N_CORE - 1) |-> IF i # j THEN -12 ELSE C0[i][j]]]

build_core_matrix ==
    LET C0 == Times(Eye(N_CORE), 85)
    IN  [i \in 0..(N_CORE - 1) |->
            [j \in 0..(N_CORE - 1) |-> IF i # j THEN 12 ELSE C0[i][j]]]

build_surface_matrix ==
    LET L0 == Times(Eye(N_SURFACE), 60)
        L1 == SetEntry(L0, 7, 4, 35)
        L2 == SetEntry(L1, 1, 4, 45)
        L3 == SetEntry(L2, 7, 13, 50)
        L4 == SetEntry(L3, 3, 9, 40)
        L5 == SetEntry(L4, 13, 8, 25)
    IN  SetEntry(L5, 14, 5, -30)

\* the override lands on the transposed index pair
build_projection_matrix_transposed ==
    LET R0 == Times(Ones(N_SURFACE, N_CORE), 15)
    IN  SetEntry(R0, 6, 1, 55)

build_projection_matrix ==
    LET R0 == Times(Ones(N_SURFACE, N_CORE), 15)
    IN  SetEntry(R0, 1, 6, 55)

build_feedback_matrix ==
    LET F0 == Times(Eye(N_SURFACE), 15)
    IN  SetEntry(F0, 7, 3, 20)

ZeroMatrix(r, c) == Times(Ones(r, c), 0)

----------------------------------------------------------------------------
(* config.py *)

BASELINE_CORE == Tenths(FromSeq(<<5, -6, 2, -3, -4, -5, -7>>))
BASELINE_SURFACE == Vec(N_SURFACE, 0)

----------------------------------------------------------------------------
(* dynamics.py: one iteration of the loop of evolve *)

\* lines 30-34
CoreDelta(core_, target_core_, C_, damping_) ==
    LET z == zeros_like(core_)
        s1 == IF target_core_ = None THEN Ok(z)
              ELSE IF ~CanBroadcast(Size(Val(target_core_)), Size(core_)) THEN Err("ValueError")
              ELSE IF damping_ = None THEN Err("TypeError")
              ELSE LET x == Scale(Val(damping_), Sub(Val(target_core_), core_))
                   IN  IF FitsInto(x, z) THEN Ok(IAdd(z, x)) ELSE Err("ValueError")
    IN  IF s1.err # "none" \/ C_ = None THEN s1
        ELSE IF Cols(Val(C_)) # Size(core_) THEN Err("ValueError")
        ELSE LET y == MatVec(Val(C_), core_)
             IN  IF FitsInto(y, s1.val) THEN Ok(IAdd(s1.val, y)) ELSE Err("ValueError")

\* one "if M is not None: delta += M @ v" statement
AddMatVec(s, M, v) ==
    IF s.err # "none" \/ M = None THEN s
    ELSE IF Cols(Val(M)) # Size(v) THEN Err("ValueError")
    ELSE LET y == MatVec(Val(M), v)
         IN  IF FitsInto(y, s.val) THEN Ok(IAdd(s.val, y)) ELSE Err("ValueError")

\* the surface self-coupling is added whether or not a target is supplied
SurfaceDeltaAlwaysL(core_, surface_, target_surface_, L_, R_, F_, damping_) ==
    LET z == zeros_like(surface_)
        s1 == IF target_surface_ = None THEN Ok(z)
              ELSE IF ~CanBroadcast(Size(Val(target_surface_)), Size(surface_)) THEN Err("ValueError")
              ELSE IF damping_ = None THEN Err("TypeError")
              ELSE LET x == Scale(Val(damping_), Sub(Val(target_surface_), surface_))
                   IN  IF FitsInto(x, z) THEN Ok(IAdd(z, x)) ELSE Err("ValueError")
        s2 == AddMatVec(s1, R_, core_)
        s3 == AddMatVec(s2, F_, surface_)
    IN  AddMatVec(s3, L_, surface_)

\* lines 37-45
SurfaceDelta(core_, surface_, target_surface_, L_, R_, F_, damping_) ==
    LET z == zeros_like(surface_)
        s1 == IF target_surface_ = None THEN Ok(z)
              ELSE IF ~CanBroadcast(Size(Val(target_surface_)), Size(surface_)) THEN Err("ValueError")
              ELSE IF damping_ = None THEN Err("TypeError")
              ELSE LET x == Scale(Val(damping_), Sub(Val(target_surface_), surface_))
                   IN  IF FitsInto(x, z) THEN Ok(IAdd(z, x)) ELSE Err("ValueError")
        s2 == AddMatVec(s1, R_, core_)
        s3 == AddMatVec(s2, F_, surface_)
    IN  IF target_surface_ = None THEN AddMatVec(s3, L_, surface_) ELSE s3

\* one row too many is allocated
InitialHistoryExtraRow(steps_val, v) ==
    [r \in 0..(steps_val + 1) |-> IF r = 0 THEN v ELSE zeros_like(v)]

\* the initial state is clamped before it is recorded
InitialHistoryClipped(steps_val, v) ==
    [r \in 0..steps_val |-> IF r = 0 THEN clipVec(v) ELSE zeros_like(v)]

\* lines 22-26: allocation of one history array and the write of its row 0
InitialHistory(steps_val, v) ==
    [r \in 0..steps_val |-> IF r = 0 THEN v ELSE zeros_like(v)]

----------------------------------------------------------------------------
(* app.py: delta and top-impact index.  Values are in tenths. *)

Abs(x) == IF x < 0 THEN -x ELSE x

\* the sign is kept: the largest signed delta wins
np_abs_forgotten(v) == v

np_abs(v) == [i \in DOMAIN v |-> Abs(v[i])]

\* np.argmax: a linear scan that keeps the first maximum
RECURSIVE ArgmaxFrom(_, _, _)
ArgmaxFrom(v, k, best) ==
    IF k >= Size(v) THEN best
    ELSE ArgmaxFrom(v, k + 1, IF v[k] > v[best] THEN k ELSE best)

np_argmax(v) == ArgmaxFrom(v, 1, 0)

----------------------------------------------------------------------------
(* Inputs *)

DeltaVals == {-9, 0, 1, 3}

CoreInputs ==
    { Vec(N_CORE, 5 * Tenth),
      Vec(N_CORE, -5 * Tenth),
      Tenths(FromSeq(<<5, 0, 0, 0, 0, 0, 0>>)),
      Tenths(FromSeq(<<20, -15, 0, 5, 0, 0, 0>>)),
      BASELINE_CORE,
      Vec(N_CORE - 1, 5 * Tenth) }

SurfaceInputs ==
    { BASELINE_SURFACE,
      Tenths(FromSeq(<<-20, 15, 0, 0, 5, 0, 0, 0, 0, 0, 0, 0, 0, -3, 0>>)),
      Vec(N_SURFACE - 1, 0) }

\* np.random.uniform(-0.3, 0.3, n): some of the vectors it can return
RandomCores == { Vec(N_CORE, -3 * Tenth), Tenths(FromSeq(<<2, -1, 0, 1, -3, 2, 0>>)) }
RandomSurfaces == { Vec(N_SURFACE, 2 * Tenth) }

TargetCoreInputs ==
    { None, Some(Vec(N_CORE, ONE)), Some(Vec(1, ONE)), Some(Vec(N_CORE - 1, ONE)) }

TargetSurfaceInputs ==
    { None, Some(Vec(N_SURFACE, 7 * Tenth)), Some(Vec(1, 7 * Tenth)) }

StepInputs == (0 - MaxNeg)..MaxSteps

DampingInputs == { None, Some(50) }

MatrixInputs ==
    { [C |-> None, L |-> None, R |-> None, F |-> None],
      [C |-> Some(ZeroMatrix(N_CORE, N_CORE)),
       L |-> Some(ZeroMatrix(N_SURFACE, N_SURFACE)),
       R |-> Some(ZeroMatrix(N_SURFACE, N_CORE)),
       F |-> Some(ZeroMatrix(N_SURFACE, N_SURFACE))] }

----------------------------------------------------------------------------
(* Initial state: no call in progress *)

IdleEvolve ==
    /\ pc = "idle"
    /\ entry = "none"
    /\ arg_core = None
    /\ arg_surface = None
    /\ steps = 0
    /\ target_core = None
    /\ target_surface = None
    /\ C = None /\ L = None /\ R = None /\ F = None
    /\ damping = None
    /\ damping_given = FALSE
    /\ core = None
    /\ surface = None
    /\ t = 0
    /\ history_core = None
    /\ history_surface = None
    /\ core_delta = None
    /\ surface_delta = None
    /\ error = "none"

DeltaOff ==
    /\ before_vals = None
    /\ after_vals = None
    /\ deltas = None
    /\ max_delta_idx = -1
    /\ dpc = "off"

Init == IdleEvolve /\ DeltaOff

----------------------------------------------------------------------------
(* Actions *)

\* the call of evolve: binding of its parameters
EnterEvolve(who, c, s, n, tc, ts, m, d, given) ==
    /\ pc' = "evolve"
    /\ entry' = who
    /\ arg_core' = c
    /\ arg_surface' = s
    /\ steps' = n
    /\ target_core' = tc
    /\ target_surface' = ts
    /\ C' = m.C /\ L' = m.L /\ R' = m.R /\ F' = m.F
    /\ damping' = d
    /\ damping_given' = given
    /\ core' = None
    /\ surface' = None
    /\ t' = 0
    /\ history_core' = None
    /\ history_surface' = None
    /\ core_delta' = None
    /\ surface_delta' = None
    /\ error' = "none"

\* simulation.py, run_simulation lines 9-41 up to the entry of evolve
RunSimulation ==
    /\ pc = "idle"
    /\ \E ic \in {None} \cup {Some(c) : c \in CoreInputs},
          is \in {None} \cup {Some(s) : s \in SurfaceInputs},
          tc \in TargetCoreInputs, ts \in TargetSurfaceInputs,
          n \in StepInputs, d \in DampingInputs :
        \E c \in IF ic = None THEN RandomCores ELSE {Val(ic)},
           s \in IF is = None THEN RandomSurfaces ELSE {Val(is)} :
            EnterEvolve("run_simulation", c, s, n, tc, ts,
                        [C |-> Some(build_core_matrix),
                         L |-> Some(build_surface_matrix),
                         R |-> Some(build_projection_matrix),
                         F |-> Some(build_feedback_matrix)],
                        d, d # None)
    /\ UNCHANGED deltaVars

\* a direct call of evolve, dynamics.py lines 4-5
Evolve ==
    /\ pc = "idle"
    /\ \E c \in CoreInputs, s \in SurfaceInputs,
          tc \in TargetCoreInputs, ts \in TargetSurfaceInputs,
          n \in StepInputs, d \in DampingInputs, m \in MatrixInputs :
            EnterEvolve("evolve", c, s, n, tc, ts, m,
                        IF d = None THEN Some(PROPAGATION_DAMPING) ELSE d, d # None)
    /\ UNCHANGED deltaVars

Raise(e) ==
    /\ pc' = "raised"
    /\ error' = e

\* dynamics.py lines 10-26
EvolveAlloc ==
    /\ pc = "evolve"
    /\ core' = arg_core
    /\ surface' = arg_surface
    /\ IF steps + 1 < 0
       THEN /\ Raise("ValueError")
            /\ UNCHANGED <<history_core, history_surface, t>>
       ELSE IF steps + 1 = 0
       THEN /\ Raise("IndexError")
            /\ history_core' = Some(InitialHistory(steps, arg_core))
            /\ history_surface' = Some(InitialHistory(steps, arg_surface))
            /\ UNCHANGED t
       ELSE /\ history_core' = Some(InitialHistory(steps, arg_core))
            /\ history_surface' = Some(InitialHistory(steps, arg_surface))
            /\ t' = 1
            /\ pc' = "loop"
            /\ UNCHANGED error
    /\ UNCHANGED <<entry, arg_core, arg_surface, steps, target_core, target_surface,
                   C, L, R, F, damping, damping_given, core_delta, surface_delta>>
    /\ UNCHANGED deltaVars

\* the surface delta reads the core already updated in this iteration
EvolveStepSequential ==
    /\ pc = "loop"
    /\ t <= steps
    /\ LET cd == CoreDelta(core, target_core, C, damping)
           new_core == clipVec(IAdd(core, cd.val))
           sd == SurfaceDelta(IF cd.err = "none" THEN new_core ELSE core,
                              surface, target_surface, L, R, F, damping)
       IN  IF cd.err # "none"
           THEN /\ Raise(cd.err)
                /\ UNCHANGED <<core, surface, t, history_core, history_surface,
                               core_delta, surface_delta>>
           ELSE IF sd.err # "none"
           THEN /\ Raise(sd.err)
                /\ core_delta' = cd.val
                /\ UNCHANGED <<core, surface, t, history_core, history_surface,
                               surface_delta>>
           ELSE /\ core_delta' = cd.val
                /\ surface_delta' = sd.val
                /\ core' = new_core
                /\ surface' = clipVec(IAdd(surface, sd.val))
                /\ history_core' = Some([Val(history_core) EXCEPT ![t] = core'])
                /\ history_surface' = Some([Val(history_surface) EXCEPT ![t] = surface'])
                /\ t' = t + 1
                /\ UNCHANGED <<pc, error>>
    /\ UNCHANGED <<entry, arg_core, arg_surface, steps, target_core, target_surface,
                   C, L, R, F, damping, damping_given>>
    /\ UNCHANGED deltaVars

\* dynamics.py lines 28-52, one iteration
EvolveStep ==
    /\ pc = "loop"
    /\ t <= steps
    /\ LET cd == CoreDelta(core, target_core, C, damping)
           sd == SurfaceDelta(core, surface, target_surface, L, R, F, damping)
       IN  IF cd.err # "none"
           THEN /\ Raise(cd.err)
                /\ UNCHANGED <<core, surface, t, history_core, history_surface,
                               core_delta, surface_delta>>
           ELSE IF sd.err # "none"
           THEN /\ Raise(sd.err)
                /\ core_delta' = cd.val
                /\ UNCHANGED <<core, surface, t, history_core, history_surface,
                               surface_delta>>
           ELSE /\ core_delta' = cd.val
                /\ surface_delta' = sd.val
                /\ core' = clipVec(IAdd(core, cd.val))
                /\ surface' = clipVec(IAdd(surface, sd.val))
                /\ history_core' = Some([Val(history_core) EXCEPT ![t] = core'])
                /\ history_surface' = Some([Val(history_surface) EXCEPT ![t] = surface'])
                /\ t' = t + 1
                /\ UNCHANGED <<pc, error>>
    /\ UNCHANGED <<entry, arg_core, arg_surface, steps, target_core, target_surface,
                   C, L, R, F, damping, damping_given>>
    /\ UNCHANGED deltaVars

\* dynamics.py line 54 (and simulation.py line 43)
EvolveReturn ==
    /\ pc = "loop"
    /\ t > steps
    /\ pc' = "returned"
    /\ UNCHANGED <<entry, arg_core, arg_surface, steps, target_core, target_surface,
                   C, L, R, F, damping, damping_given, core, surface, t,
                   history_core, history_surface, core_delta, surface_delta, error>>
    /\ UNCHANGED deltaVars

\* the caller is done with the result (or the exception) of one call
Reset ==
    /\ pc \in {"returned", "raised"}
    /\ pc' = "idle"
    /\ entry' = "none"
    /\ arg_core' = None
    /\ arg_surface' = None
    /\ steps' = 0
    /\ target_core' = None
    /\ target_surface' = None
    /\ C' = None /\ L' = None /\ R' = None /\ F' = None
    /\ damping' = None
    /\ damping_given' = FALSE
    /\ core' = None
    /\ surface' = None
    /\ t' = 0
    /\ history_core' = None
    /\ history_surface' = None
    /\ core_delta' = None
    /\ surface_delta' = None
    /\ error' = "none"
    /\ UNCHANGED deltaVars

Next ==
    \/ RunSimulation
    \/ Evolve
    \/ EvolveAlloc
    \/ EvolveStep
    \/ EvolveReturn
    \/ Reset

Spec == Init /\ [][Next]_vars

----------------------------------------------------------------------------
(* Result extraction as a pure function of two equal-length vectors *)

InitDelta ==
    /\ IdleEvolve
    /\ \E n \in 1..MaxLen :
        /\ before_vals \in [0..(n - 1) -> DeltaVals]
        /\ after_vals \in [0..(n - 1) -> DeltaVals]
    /\ deltas = None
    /\ max_delta_idx = -1
    /\ dpc = "start"

\* app.py line 155
ComputeDeltas ==
    /\ dpc = "start"
    /\ deltas' = Sub(after_vals, before_vals)
    /\ dpc' = "deltas"
    /\ UNCHANGED <<before_vals, after_vals, max_delta_idx>>
    /\ UNCHANGED evolveVars

\* app.py line 212
MaxDeltaIdx ==
    /\ dpc = "deltas"
    /\ max_delta_idx' = np_argmax(np_abs(deltas))
    /\ dpc' = "done"
    /\ UNCHANGED <<before_vals, after_vals, deltas>>
    /\ UNCHANGED evolveVars

NextDelta ==
    \/ ComputeDeltas
    \/ MaxDeltaIdx

SpecDelta == InitDelta /\ [][NextDelta]_vars

----------------------------------------------------------------------------
(* Properties *)

InRange(v) == \A i \in DOMAIN v : -ONE <= v[i] /\ v[i] <= ONE

Clamped(x) == IF x > ONE THEN ONE ELSE IF x < -ONE THEN -ONE ELSE x

HistoryCore == Val(history_core)
HistorySurface == Val(history_surface)

\* Model sanity: every value the next iteration multiplies is a multiple of
\* Den, so the fixed-point products are exact.
FixedPointExact ==
    (pc = "loop" /\ t <= steps) =>
        /\ \A i \in DOMAIN core : core[i] % Den = 0
        /\ \A i \in DOMAIN surface : surface[i] % Den = 0

\* C1 (as stated): every component of every entry of both returned
\* histories, the entry at index 0 included, lies in [-1, 1].
C1_ClampEveryEntry ==
    pc = "returned" =>
        /\ \A r \in DOMAIN HistoryCore : InRange(HistoryCore[r])
        /\ \A r \in DOMAIN HistorySurface : InRange(HistorySurface[r])

\* C1 (amended): every component of every history entry at index >= 1 lies
\* in [-1, 1]; the entry at index 0 does exactly when the input vector does.
C1_ClampAfterFirstEntry ==
    pc \in {"loop", "returned"} =>
        /\ \A r \in DOMAIN HistoryCore : r >= 1 => InRange(HistoryCore[r])
        /\ \A r \in DOMAIN HistorySurface : r >= 1 => InRange(HistorySurface[r])
        /\ InRange(arg_core) <=> InRange(HistoryCore[0])
        /\ InRange(arg_surface) <=> InRange(HistorySurface[0])

C1_Witness ==
    /\ pc = "returned"
    /\ steps >= 1
    /\ ~InRange(arg_core)
    /\ ~InRange(HistoryCore[0])
    /\ InRange(HistoryCore[1])
    /\ HistoryCore[1] # HistoryCore[0]

\* C2: for every steps >= 0 a call that returns, returns two histories of
\* exactly steps + 1 entries each.
C2_HistoryLength ==
    pc = "returned" =>
        /\ steps >= 0
        /\ DOMAIN HistoryCore = 0..steps
        /\ DOMAIN HistorySurface = 0..steps

C2_Witness ==
    /\ pc = "returned"
    /\ entry = "run_simulation"
    /\ steps = 2
    /\ Size(HistoryCore) = 3
    /\ Size(HistorySurface) = 3

Term(M, v, i) == IF M = None THEN 0 ELSE Dot(Val(M)[i], v)
Pull(target, v, i) ==
    IF target = None THEN 0 ELSE MulFix(Val(damping), At(Val(target), i) - v[i])

ExpectedCoreDelta(c) ==
    [i \in DOMAIN c |-> Pull(target_core, c, i) + Term(C, c, i)]

ExpectedSurfaceDelta(c, s) ==
    [i \in DOMAIN s |->
        IF target_surface # None
        THEN Pull(target_surface, s, i) + Term(R, c, i) + Term(F, s, i)
        ELSE Term(R, c, i) + Term(F, s, i) + Term(L, s, i)]

\* C3: in every completed iteration the surface delta is
\* damping*(target - surface) + R.core + F.surface (no L.surface) when a
\* surface target is supplied and R.core + F.surface + L.surface when none
\* is; the core delta contains C.core with and without a core target.
C3_AsymmetricRule ==
    [][(pc = "loop" /\ t' = t + 1) =>
          /\ surface_delta' = ExpectedSurfaceDelta(core, surface)
          /\ core_delta' = ExpectedCoreDelta(core)]_vars

C3_Witness ==
    /\ pc = "loop"
    /\ t = 2
    /\ target_surface # None
    /\ target_core # None
    /\ L # None
    /\ \E i \in DOMAIN surface : Term(L, HistorySurface[0], i) # 0
    /\ surface_delta = ExpectedSurfaceDelta(HistoryCore[0], HistorySurface[0])

\* C4: the history entry at index 0 is the input vector, not clamped, for
\* every step count; with steps = 0 the histories hold that entry alone.
C4_InitialEntry ==
    pc \in {"loop", "returned"} =>
        /\ HistoryCore[0] = arg_core
        /\ HistorySurface[0] = arg_surface
        /\ (pc = "returned" /\ steps = 0) =>
              /\ DOMAIN HistoryCore = {0}
              /\ DOMAIN HistorySurface = {0}

C4_Witness ==
    /\ pc = "returned"
    /\ steps = 0
    /\ ~InRange(arg_core)
    /\ ~InRange(arg_surface)
    /\ HistoryCore = Vec(1, arg_core)
    /\ HistorySurface = Vec(1, arg_surface)

IsZeroMatrix(M) ==
    /\ M # None
    /\ \A i \in DOMAIN Val(M) : \A j \in DOMAIN Val(M)[i] : Val(M)[i][j] = 0

NoTargetZeroMatrices ==
    /\ target_core = None
    /\ target_surface = None
    /\ IsZeroMatrix(C) /\ IsZeroMatrix(L) /\ IsZeroMatrix(R) /\ IsZeroMatrix(F)

\* C5 (as stated): with no targets and four zero matrices every history
\* entry written equals the initial state, for every initial state.
C5_PassThroughAnyState ==
    (pc \in {"loop", "returned"} /\ NoTargetZeroMatrices) =>
        \A r \in 0..(t - 1) :
            /\ HistoryCore[r] = arg_core
            /\ HistorySurface[r] = arg_surface

\* C5 (amended): with no targets and four zero matrices, entry 0 is the
\* initial state and every later entry is the initial state clamped to
\* [-1, 1]; so all entries equal the initial state when it lies in [-1, 1].
C5_PassThroughClamped ==
    (pc \in {"loop", "returned"} /\ NoTargetZeroMatrices) =>
        /\ HistoryCore[0] = arg_core
        /\ HistorySurface[0] = arg_surface
        /\ \A r \in 1..(t - 1) :
              /\ HistoryCore[r] = [i \in DOMAIN arg_core |-> Clamped(arg_core[i])]
              /\ HistorySurface[r] = [i \in DOMAIN arg_surface |-> Clamped(arg_surface[i])]
        /\ (InRange(arg_core) /\ InRange(arg_surface)) =>
              \A r \in 0..(t - 1) :
                  /\ HistoryCore[r] = arg_core
                  /\ HistorySurface[r] = arg_surface

C5_Witness ==
    /\ pc = "returned"
    /\ NoTargetZeroMatrices
    /\ steps = 2
    /\ InRange(arg_core)
    /\ \E i \in DOMAIN arg_core : arg_core[i] # 0
    /\ HistoryCore[2] = arg_core
    /\ HistorySurface[2] = arg_surface

ShapesMatch ==
    /\ Size(arg_core) = N_CORE
    /\ Size(arg_surface) = N_SURFACE
    /\ target_core # None => Size(Val(target_core)) = Size(arg_core)
    /\ target_surface # None => Size(Val(target_surface)) = Size(arg_surface)

\* C6: a run_simulation call without a damping value completes with a
\* history, with and without targets, and where the damping is used it is
\* PROPAGATION_DAMPING.
C6_DampingFallback ==
    (/\ entry = "run_simulation"
     /\ ~damping_given
     /\ pc \in {"returned", "raised"}
     /\ steps >= 0
     /\ ShapesMatch) =>
        /\ pc = "returned"
        /\ (steps >= 1 /\ (target_core # None \/ target_surface # None)) =>
              damping = Some(PROPAGATION_DAMPING)

\* C7: a call whose initial or target vectors have the wrong length never
\* returns a history, whatever the step count.
C7_ShapeMismatchFails ==
    (pc # "idle" /\ ~ShapesMatch) => pc # "returned"

\* C8: a call with a negative step count is rejected with no history
\* storage allocated, and returns nothing.
C8_InvalidStepCount ==
    (pc # "idle" /\ steps < 0) =>
        /\ pc # "returned"
        /\ history_core = None
        /\ history_surface = None

\* C9: the core matrix of every run is 7x7 with 0.85 on the diagonal and
\* 0.12 elsewhere, the projection matrix is 15x7 with 0.15 everywhere but
\* [1][6] = 0.55; so any two runs build equal matrices.
C9_MatrixExactness ==
    entry = "run_simulation" =>
        /\ C # None /\ R # None
        /\ DOMAIN Val(C) = 0..6
        /\ \A i \in 0..6 :
              /\ DOMAIN Val(C)[i] = 0..6
              /\ \A j \in 0..6 : Val(C)[i][j] = IF i = j THEN 85 ELSE 12
        /\ DOMAIN Val(R) = 0..14
        /\ \A i \in 0..14 :
              /\ DOMAIN Val(R)[i] = 0..6
              /\ \A j \in 0..6 : Val(R)[i][j] = IF i = 1 /\ j = 6 THEN 55 ELSE 15

C9_Witness ==
    /\ entry = "run_simulation"
    /\ pc = "returned"
    /\ Val(C)[3][3] = 85
    /\ Val(C)[3][4] = 12
    /\ Val(R)[1][6] = 55
    /\ Val(R)[6][1] = 15

\* C10: the deltas are final minus baseline elementwise and the top-impact
\* index has the largest absolute delta of all indices; for baseline
\* [0, 0, 0] and final [0.1, -0.9, 0.3] it is index 1.
C10_DeltaTopImpact ==
    dpc = "done" =>
        /\ DOMAIN deltas = DOMAIN after_vals
        /\ \A i \in DOMAIN deltas : deltas[i] = after_vals[i] - before_vals[i]
        /\ max_delta_idx \in DOMAIN deltas
        /\ \A k \in DOMAIN deltas :
              Abs(after_vals[k] - before_vals[k])
                  <= Abs(after_vals[max_delta_idx] - before_vals[max_delta_idx])
        /\ (before_vals = Vec(3, 0) /\ after_vals = FromSeq(<<1, -9, 3>>)) =>
              max_delta_idx = 1

C10_Witness ==
    /\ dpc = "done"
    /\ before_vals = Vec(3, 0)
    /\ after_vals = FromSeq(<<1, -9, 3>>)
    /\ deltas = FromSeq(<<1, -9, 3>>)
    /\ max_delta_idx = 1

ClampedVec(v) == [i \in DOMAIN v |-> Clamped(v[i])]

\* C11: in every completed iteration t both deltas are computed from the
\* state recorded at history index t-1 (R.core uses the core of step t-1),
\* then both vectors are clamped and recorded, so entry t is a function of
\* entry t-1 only.
C11_SynchronousUpdate ==
    [][(pc = "loop" /\ t' = t + 1) =>
          LET pc_ == HistoryCore[t - 1]
              ps_ == HistorySurface[t - 1]
              dc_ == ExpectedCoreDelta(pc_)
              ds_ == ExpectedSurfaceDelta(pc_, ps_)
          IN  /\ core = pc_ /\ surface = ps_
              /\ core_delta' = dc_
              /\ surface_delta' = ds_
              /\ Val(history_core')[t] = ClampedVec([i \in DOMAIN pc_ |-> pc_[i] + dc_[i]])
              /\ Val(history_surface')[t] = ClampedVec([i \in DOMAIN ps_ |-> ps_[i] + ds_[i]])
              /\ \A r \in 0..(t - 1) :
                    /\ Val(history_core')[r] = HistoryCore[r]
                    /\ Val(history_surface')[r] = HistorySurface[r]]_vars

C11_Witness ==
    /\ pc = "loop"
    /\ t = 3
    /\ R # None
    /\ HistoryCore[1] # HistoryCore[0]
    /\ HistoryCore[2] # HistoryCore[1]
    /\ \E i \in DOMAIN surface : Term(R, HistoryCore[1], i) # Term(R, HistoryCore[2], i)
    /\ surface_delta = ExpectedSurfaceDelta(HistoryCore[1], HistorySurface[1])
    /\ surface_delta # ExpectedSurfaceDelta(HistoryCore[2], HistorySurface[1])

AllWithin(v, lo, hi) == \A i \in DOMAIN v : lo <= v[i] /\ v[i] <= hi
AllEqual(v, x) == \A i \in DOMAIN v : v[i] = x

\* C12: with no core target and the matrix of build_core_matrix, an initial
\* core vector within [0, 1] gives core components that never decrease
\* from one history entry to the next, and once all of them are +1 they
\* stay +1; symmetrically within [-1, 0], never increasing, and -1.
C12_MonotoneSaturation ==
    (/\ pc \in {"loop", "returned"}
     /\ target_core = None
     /\ C = Some(build_core_matrix)) =>
        /\ AllWithin(arg_core, 0, ONE) =>
              \A r \in 1..(t - 1) :
                  /\ \A i \in DOMAIN arg_core : HistoryCore[r][i] >= HistoryCore[r - 1][i]
                  /\ AllEqual(HistoryCore[r - 1], ONE) => AllEqual(HistoryCore[r], ONE)
        /\ AllWithin(arg_core, -ONE, 0) =>
              \A r \in 1..(t - 1) :
                  /\ \A i \in DOMAIN arg_core : HistoryCore[r][i] <= HistoryCore[r - 1][i]
                  /\ AllEqual(HistoryCore[r - 1], -ONE) => AllEqual(HistoryCore[r], -ONE)

C12_Witness ==
    /\ pc = "returned"
    /\ steps = 2
    /\ target_core = None
    /\ C = Some(build_core_matrix)
    /\ AllWithin(arg_core, 0, ONE)
    /\ HistoryCore[1] # HistoryCore[0]
    /\ AllEqual(HistoryCore[1], ONE)
    /\ AllEqual(HistoryCore[2], ONE)

====
